---------------------------- MODULE Spec2Model ----------------------------
(***************************************************************************)
(* A model of city-screensaver (src/city-screensaver/src/main.rs): the     *)
(* scene generators, the per-kind updaters and the driver loop of main.    *)
(*                                                                         *)
(* Conventions.                                                            *)
(*  - f32 positions (Vehicle.x, Cloud.x) are fixed-point integers counted  *)
(*    in hundredths of a column, f32 speeds are counted in tenths, so the  *)
(*    source's  x += speed * 0.1  is  x' = x + speed  on these integers.   *)
(*  - u16 values are naturals below 2^16; the casts and the subtractions   *)
(*    that can leave the type are computed as the build computes them.     *)
(*  - The random source rng is the description of what a draw may yield:   *)
(*    rng.coin is the set of outcomes of random_bool, rng.span the number  *)
(*    of leading values of an integer range random_range may return and    *)
(*    rng.grid the spacing at which a float range is sampled.              *)
(*  - Glyph strings that are not ASCII are named in ASCII; StyleLen gives  *)
(*    the byte length str::len returns on the original string.             *)
(***************************************************************************)
EXTENDS Integers, Sequences, FiniteSets, TLC

VARIABLES
    pc,              \* position of main / name of the harness being run
    overflow_checks, \* build profile: TRUE when integer overflow panics
    rng,             \* the random source (see Conventions)
    args,            \* Args: stars, raindrops, snowflakes, clouds, rain, snow
    width,           \* terminal width  (main's `width`)
    height,          \* terminal height (main's `height`)
    buildings,
    vehicles,
    stars,
    raindrops,
    snowflakes,
    clouds,
    running,         \* the loop flag of main
    result,          \* what the loop closure / main returns
    restored,        \* "no", "ok" or "failed": outcome of restore_terminal
    ticks,           \* iterations of the loop started so far
    last,            \* what the latest iteration did
    painted,         \* paint operations of the latest draw_scene that succeeded;
                     \* what draw_buildings paints, where it is run on its own
    op,              \* the operation applied by the latest step
    tracked          \* index in `vehicles` of the vehicle being followed, or 0

vars == <<pc, overflow_checks, rng, args, width, height, buildings, vehicles,
          stars, raindrops, snowflakes, clouds, running, result, restored,
          ticks, last, painted, op, tracked>>

scene == <<buildings, vehicles, stars, raindrops, snowflakes, clouds>>

---------------------------------------------------------------------------
(* Bounds of the model *)

MaxTicks == 2
MaxVehicles == 2
MaxCount == 2
MaxClouds == 1

---------------------------------------------------------------------------
(* Integer types *)

U16 == 65536

AsU16(v) == v % U16

AsI16(v) == IF (v % U16) >= 32768 THEN (v % U16) - U16 ELSE v % U16

\* a - b on u16 panics under overflow checks, and wraps without them
SubPanics(a, b, checks) == checks /\ a < b

SubU16(a, b) == AsU16(a - b + U16)

---------------------------------------------------------------------------
(* The random source *)

RandomRangeEmpty(lo, hi) == hi <= lo

RandomRange(r, lo, hi) == {v \in lo..(hi - 1) : v < lo + r.span}

\* a float range [lo, hi) in tenths, sampled every r.grid tenths
RandomRangeF(r, lo, hi) == {v \in lo..(hi - 1) : (v - lo) % r.grid = 0}

RandomBool(r) == r.coin

\* every sequence that takes its i-th element from the i-th set of ss
RECURSIVE Prod(_)
Prod(ss) ==
    IF ss = <<>> THEN {<<>>}
    ELSE {<<a>> \o rest : a \in Head(ss), rest \in Prod(Tail(ss))}

---------------------------------------------------------------------------
(* Constant tables *)

STAR_CHARS == <<".", "*", "+", "'">>
SNOWFLAKE_CHARS == <<"*", ".", "o">>
CLOUD_SHAPES == <<"_.-^-._", " ~~~", "(-.-)">>
ANTENNA_CHARS == <<"|", "Y", "i">>
BUILDING_COLORS == <<<<60, 60, 60>>, <<70, 70, 70>>, <<80, 80, 80>>, <<90, 90, 90>>>>

\* (glyph, color, speed); speeds in tenths.  "car8" stands for the 8-column
\* box-drawing car, the last four for the truck, police car, ambulance and bus
\* emoji.
VEHICLE_STYLES == <<
    <<"car8",      "Yellow",  50>>,
    <<"[\\__\\_]", "Green",  -30>>,
    <<"o-o-o",     "Cyan",    40>>,
    <<"[##-##]",   "Magenta", -25>>,
    <<"<(o.o)>",   "Red",     20>>,
    <<"truck",     "Blue",   -20>>,
    <<"police",    "White",   35>>,
    <<"ambulance", "Red",    -40>>,
    <<"bus",       "Green",   28>> >>

\* str::len: the length in bytes of the UTF-8 string
StyleLen(style) ==
    CASE style = "car8" -> 14
      [] style \in {"truck", "police", "ambulance", "bus"} -> 4
      [] style = "o-o-o" -> 5
      [] OTHER -> 7

\* the number of terminal columns the glyph occupies
StyleColumns(style) ==
    CASE style = "car8" -> 8
      [] style \in {"truck", "police", "ambulance", "bus"} -> 2
      [] style = "o-o-o" -> 5
      [] OTHER -> 7

\* str::len of a cloud shape (all ASCII)
ShapeLen(shape) ==
    CASE shape = "_.-^-._" -> 7
      [] shape = " ~~~" -> 4
      [] OTHER -> 5

---------------------------------------------------------------------------
(* Generators *)

\* the columns wx of 1..width-1 (exclusive) that get a window in row y
WindowColumns(y, w) == {wx \in 1..(w - 2) : (y % 2 /= 0) /\ (wx % 2 /= 0)}

\* the rows pushed for y in 1..height-1 (exclusive), from row y on
RECURSIVE WindowRows(_, _, _, _)
WindowRows(y, w, h, r) ==
    IF y > h - 2 THEN {<<>>}
    ELSE {<<row>> \o rest :
            row \in [1..Cardinality(WindowColumns(y, w)) -> [on : RandomBool(r)]],
            rest \in WindowRows(y + 1, w, h, r)}

BuildingWidths(r) == RandomRange(r, 5, 15)

\* a height range that ends one row later
HeightBoundLoose(term_height) == SubU16(term_height, 4)

\* the exclusive upper end of the height range, term_height - 5 in u16
HeightBound(term_height) == SubU16(term_height, 5)

BuildingHeights(term_height, r) == RandomRange(r, 5, HeightBound(term_height))

BuildingGaps(r) == RandomRange(r, 1, 5)

BuildingColorChoices(r) == {BUILDING_COLORS[i + 1] : i \in RandomRange(r, 0, Len(BUILDING_COLORS))}

AntennaChoices(r) ==
    {[has_antenna |-> b, antenna_char |-> c] :
        b \in RandomBool(r),
        c \in {ANTENNA_CHARS[i + 1] : i \in RandomRange(r, 0, Len(ANTENNA_CHARS))} \cup {" "}}

\* one iteration of the while loop: the building pushed at x
NewBuildings(x, term_height, r) ==
    UNION {
      {[x |-> x, width |-> w, height |-> h, color |-> c, windows |-> ws,
        has_antenna |-> a.has_antenna, antenna_char |-> a.antenna_char] :
          c \in BuildingColorChoices(r),
          ws \in WindowRows(1, w, h, r),
          a \in {q \in AntennaChoices(r) : q.has_antenna <=> q.antenna_char /= " "}} :
      w \in BuildingWidths(r), h \in BuildingHeights(term_height, r)}

\* the loop of create_buildings from position x on
RECURSIVE BuildingsFrom(_, _, _, _)
BuildingsFrom(x, term_width, term_height, r) ==
    IF ~(x < term_width) THEN {<<>>}
    ELSE UNION {
           {<<b>> \o rest :
               rest \in BuildingsFrom(AsU16(x + b.width + gap), term_width, term_height, r)} :
           b \in NewBuildings(x, term_height, r), gap \in BuildingGaps(r)}

\* create_buildings panics when an iteration runs and term_height - 5 overflows
\* under overflow checks, or the height range 5..(term_height - 5) is empty
CreateBuildingsPanics(term_width, term_height, checks) ==
    /\ 0 < term_width
    /\ \/ SubPanics(term_height, 5, checks)
       \/ RandomRangeEmpty(5, HeightBound(term_height))

CreateBuildings(term_width, term_height, r) ==
    BuildingsFrom(0, term_width, term_height, r)

CreateVehicles(term_height) == <<>>

SpawnVehiclePanics(term_height, checks) == SubPanics(term_height, 4, checks)

\* a spawn that starts every vehicle at the left edge
SpawnXAlwaysLeft(speed, term_width) == 0

SpawnX(speed, term_width) == IF speed > 0 THEN 0 ELSE term_width * 100

SpawnVehicle(term_width, term_height, r) ==
    LET road_y == SubU16(term_height, 3)
    IN {[x |-> SpawnX(VEHICLE_STYLES[i + 1][3], term_width),
         y |-> IF b THEN road_y ELSE SubU16(road_y, 1),
         style |-> VEHICLE_STYLES[i + 1][1],
         color |-> VEHICLE_STYLES[i + 1][2],
         speed |-> VEHICLE_STYLES[i + 1][3]] :
           i \in RandomRange(r, 0, Len(VEHICLE_STYLES)), b \in RandomBool(r)}

\* stars over the whole height of the terminal
StarRowsWholeScreen(term_height) == term_height

StarRows(term_height) == term_height \div 2

CreateStarsPanics(term_width, term_height, count) ==
    count > 0 /\ (RandomRangeEmpty(0, term_width) \/ RandomRangeEmpty(0, StarRows(term_height)))

CreateStarsWithCount(term_width, term_height, r, count) ==
    [1..count ->
        [x : RandomRange(r, 0, term_width),
         y : RandomRange(r, 0, StarRows(term_height)),
         char : {STAR_CHARS[i + 1] : i \in RandomRange(r, 0, Len(STAR_CHARS))}]]

CreateRaindropsPanics(term_width, term_height, count) ==
    count > 0 /\ (RandomRangeEmpty(0, term_width) \/ RandomRangeEmpty(0, term_height))

CreateRaindropsWithCount(term_width, term_height, r, count) ==
    [1..count ->
        [x : RandomRange(r, 0, term_width),
         y : RandomRange(r, 0, term_height),
         speed : RandomRange(r, 1, 3)]]

CreateSnowflakesWithCount(term_width, term_height, r, count) ==
    [1..count ->
        [x : RandomRange(r, 0, term_width),
         y : RandomRange(r, 0, term_height),
         speed_y : RandomRange(r, 1, 2),
         speed_x : RandomRange(r, -1, 2),
         char : {SNOWFLAKE_CHARS[i + 1] : i \in RandomRange(r, 0, Len(SNOWFLAKE_CHARS))}]]

CloudRows(term_height) == term_height \div 4

CreateCloudsPanics(term_width, term_height, count) ==
    count > 0 /\ (RandomRangeEmpty(0, term_width) \/ RandomRangeEmpty(0, CloudRows(term_height)))

CreateCloudsWithCount(term_width, term_height, r, count) ==
    [1..count ->
        [x : {c * 100 : c \in RandomRange(r, 0, term_width)},
         y : RandomRange(r, 0, CloudRows(term_height)),
         shape : {CLOUD_SHAPES[i + 1] : i \in RandomRange(r, 0, Len(CLOUD_SHAPES))},
         speed : RandomRangeF(r, 5, 15)]]

---------------------------------------------------------------------------
(* Updaters *)

\* a window after its random_bool(0.01) draw
ToggleWindow(window, r) ==
    {[on |-> IF flip THEN ~window.on ELSE window.on] : flip \in RandomBool(r)}

UpdateBuildingWindows(building, r) ==
    {[building EXCEPT !.windows = ws] :
        ws \in Prod([wy \in 1..Len(building.windows) |->
                 Prod([wx \in 1..Len(building.windows[wy]) |->
                     ToggleWindow(building.windows[wy][wx], r)])])}

UpdateWindows(bs, r) ==
    Prod([i \in 1..Len(bs) |-> UpdateBuildingWindows(bs[i], r)])

RemoveAt(s, i) == SubSeq(s, 1, i - 1) \o SubSeq(s, i + 1, Len(s))

\* the width update_vehicles gives a vehicle
VehicleWidth(vehicle) == StyleLen(vehicle.style) * 100

\* the removal test of update_vehicles, on the vehicle already advanced
OffScreen(vehicle, term_width) ==
    \/ vehicle.speed > 0 /\ vehicle.x > term_width * 100
    \/ vehicle.speed < 0 /\ vehicle.x < -VehicleWidth(vehicle)

\* an iteration that moves on to the next index after a removal too
UpdateVehiclesIterSkipping(vs, i, term_width) ==
    LET moved == [vs EXCEPT ![i].x = @ + vs[i].speed]
    IN IF OffScreen(moved[i], term_width)
       THEN <<RemoveAt(moved, i), i + 1>>
       ELSE <<moved, i + 1>>

\* one iteration of the while loop of update_vehicles at index i (1-based):
\* <<vehicles, i>> after it
UpdateVehiclesIter(vs, i, term_width) ==
    LET moved == [vs EXCEPT ![i].x = @ + vs[i].speed]
    IN IF OffScreen(moved[i], term_width)
       THEN <<RemoveAt(moved, i), i>>
       ELSE <<moved, i + 1>>

\* the while loop of update_vehicles from index i on; `st` is the loop state
\* after one iteration, bound as a value
RECURSIVE UpdateVehiclesFrom(_, _, _)
UpdateVehiclesFrom(vs, i, term_width) ==
    IF ~(i <= Len(vs)) THEN vs
    ELSE CHOOSE out \in
           {UpdateVehiclesFrom(st[1], st[2], term_width) :
              st \in {UpdateVehiclesIter(vs, i, term_width)}} : TRUE

UpdateVehicles(vs, term_width) == UpdateVehiclesFrom(vs, 1, term_width)

\* a twinkle that also shifts the star one column to the right
UpdateStarMoving(star, r) ==
    {IF flip THEN [star EXCEPT !.char = STAR_CHARS[i + 1], !.x = @ + 1] ELSE star :
        flip \in RandomBool(r), i \in RandomRange(r, 0, Len(STAR_CHARS))}

UpdateStar(star, r) ==
    {IF flip THEN [star EXCEPT !.char = STAR_CHARS[i + 1]] ELSE star :
        flip \in RandomBool(r), i \in RandomRange(r, 0, Len(STAR_CHARS))}

UpdateStars(ss, r) == Prod([i \in 1..Len(ss) |-> UpdateStar(ss[i], r)])

UpdateRaindrop(drop, term_width, term_height, r) ==
    LET y == AsU16(drop.y + drop.speed)
    IN IF y >= term_height
       THEN {[drop EXCEPT !.y = 0, !.x = x] : x \in RandomRange(r, 0, term_width)}
       ELSE {[drop EXCEPT !.y = y]}

UpdateRaindrops(ds, term_width, term_height, r) ==
    Prod([i \in 1..Len(ds) |-> UpdateRaindrop(ds[i], term_width, term_height, r)])

\* a drift that keeps the cast value without testing it against the width
DriftXUnchecked(x, speed_x, term_width) == AsU16(AsI16(x) + speed_x)

\* the horizontal drift of update_snowflakes, casts included
DriftX(x, speed_x, term_width) ==
    LET moved == AsU16(AsI16(x) + speed_x)
    IN IF moved >= term_width THEN 0
       ELSE IF moved = 0 /\ speed_x < 0 THEN SubU16(term_width, 1)
       ELSE moved

\* whether the fall of a snowflake passes the bottom edge in this update
FlakeLands(flake, term_height) == AsU16(flake.y + flake.speed_y) >= term_height

UpdateSnowflake(flake, term_width, term_height, r) ==
    LET y == AsU16(flake.y + flake.speed_y)
    IN IF FlakeLands(flake, term_height)
       THEN {[flake EXCEPT !.y = 0, !.x = DriftX(x, flake.speed_x, term_width)] :
                x \in RandomRange(r, 0, term_width)}
       ELSE {[flake EXCEPT !.y = y, !.x = DriftX(flake.x, flake.speed_x, term_width)]}

UpdateSnowflakes(fs, term_width, term_height, r) ==
    Prod([i \in 1..Len(fs) |-> UpdateSnowflake(fs[i], term_width, term_height, r)])

\* where a cloud that passed the right edge re-enters
CloudWrapX(cloud) == -(ShapeLen(cloud.shape) * 100)

UpdateCloud(cloud, term_width) ==
    LET x == cloud.x + cloud.speed
    IN IF x > term_width * 100 THEN [cloud EXCEPT !.x = CloudWrapX(cloud)]
       ELSE [cloud EXCEPT !.x = x]

UpdateClouds(cs, term_width) == [i \in 1..Len(cs) |-> UpdateCloud(cs[i], term_width)]

---------------------------------------------------------------------------
(* Renderer *)

\* the paint operations of draw_scene, in order
PaintOps == <<"clear", "draw_clouds", "draw_stars", "draw_moon", "draw_buildings",
              "draw_road", "draw_weather_effects", "draw_vehicles", "flush">>

\* draw_moon computes term_width - 15
DrawMoonPanics(term_width, checks) == SubPanics(term_width, 15, checks)

\* draw_buildings: the row of the first body row, term_height - height - 3
BodyTop(building, term_height) == SubU16(SubU16(term_height, building.height), 3)

\* the cells MoveTo is given for the body, for y in 0..height, x in 0..width
BodyCells(building, term_height) ==
    {<<AsU16(building.x + x), AsU16(BodyTop(building, term_height) + y)>> :
        x \in 0..(building.width - 1), y \in 0..(building.height - 1)}

\* the cell of the antenna, if there is one
AntennaCells(building, term_height) ==
    IF building.has_antenna
    THEN {<<AsU16(building.x + building.width \div 2),
            SubU16(SubU16(term_height, building.height), 4)>>}
    ELSE {}

\* the cell MoveTo is given for windows[wy][wx], wy and wx as enumerate()
\* counts them (from 0)
WindowCell(building, term_height, wy, wx) ==
    <<AsU16(AsU16(building.x + AsU16(wx * 2)) + 1),
      AsU16(SubU16(SubU16(term_height, building.height), 2) + AsU16(wy * 2))>>

\* the windows painted for one building, each with its indices and its cell
WindowPaints(building, term_height) ==
    UNION {{[wy |-> wy, wx |-> wx, on |-> building.windows[wy + 1][wx + 1].on,
             at |-> WindowCell(building, term_height, wy, wx)] :
               wx \in 0..(Len(building.windows[wy + 1]) - 1)} :
           wy \in 0..(Len(building.windows) - 1)}

\* what draw_buildings paints, building by building: body, antenna, windows
DrawBuildings(bs, term_height) ==
    [i \in 1..Len(bs) |->
        [body |-> BodyCells(bs[i], term_height),
         antenna |-> AntennaCells(bs[i], term_height),
         windows |-> WindowPaints(bs[i], term_height)]]

\* a draw_scene that drops the error of a paint operation and goes on
DrawSceneIgnoringErrors(fault) ==
    [painted |-> SelectSeq(PaintOps, LAMBDA o : fault = 0 \/ o /= PaintOps[fault]),
     err |-> FALSE]

\* draw_scene when paint operation `fault` fails (0: none does): the
\* operations that succeeded, and whether an error is returned
DrawScene(fault) ==
    IF fault = 0 THEN [painted |-> PaintOps, err |-> FALSE]
    ELSE [painted |-> SubSeq(PaintOps, 1, fault - 1), err |-> TRUE]

---------------------------------------------------------------------------
(* The driver: main *)

\* what the driver specification draws from
DriverRng == [coin |-> BOOLEAN, span |-> 1, grid |-> 10]

DriverSizes == {<<6, 11>>, <<6, 8>>}

DriverArgs ==
    {[stars |-> n, raindrops |-> n, snowflakes |-> n, clouds |-> n, rain |-> w[1], snow |-> w[2]] :
        n \in {1}, w \in {<<TRUE, FALSE>>, <<FALSE, TRUE>>}}
    \cup {[stars |-> 0, raindrops |-> 0, snowflakes |-> 0, clouds |-> 0, rain |-> TRUE, snow |-> FALSE]}

NoTick == [key |-> FALSE, spawn_rolled |-> FALSE, updated |-> FALSE, drawn |-> FALSE]

Init ==
    /\ pc = "start"
    /\ overflow_checks \in BOOLEAN
    /\ rng = DriverRng
    /\ args \in DriverArgs
    /\ width = 0
    /\ height = 0
    /\ buildings = <<>>
    /\ vehicles = <<>>
    /\ stars = <<>>
    /\ raindrops = <<>>
    /\ snowflakes = <<>>
    /\ clouds = <<>>
    /\ running = FALSE
    /\ result = "none"
    /\ restored = "no"
    /\ ticks = 0
    /\ last = NoTick
    /\ painted = <<>>
    /\ op = "init"
    /\ tracked = 0

\* line 165: setup_terminal()?
SetupTerminal ==
    /\ pc = "start"
    /\ \E ok \in BOOLEAN :
         IF ok THEN pc' = "size" /\ UNCHANGED result
         ELSE pc' = "done" /\ result' = "Err_setup"
    /\ op' = "setup_terminal"
    /\ UNCHANGED <<tracked, overflow_checks, rng, args, width, height, scene, running,
                   restored, ticks, last, painted>>

\* lines 168-169: terminal::size().map_err(..)?
TerminalSize ==
    /\ pc = "size"
    /\ \/ \E sz \in DriverSizes :
            /\ width' = sz[1]
            /\ height' = sz[2]
            /\ pc' = "generate"
            /\ UNCHANGED result
       \/ /\ pc' = "done"
          /\ result' = "Err_size"
          /\ UNCHANGED <<width, height>>
    /\ op' = "terminal_size"
    /\ UNCHANGED <<tracked, overflow_checks, rng, args, scene, running, restored, ticks,
                   last, painted>>

GeneratePanics ==
    \/ CreateBuildingsPanics(width, height, overflow_checks)
    \/ CreateStarsPanics(width, height, args.stars)
    \/ args.rain /\ CreateRaindropsPanics(width, height, args.raindrops)
    \/ args.snow /\ CreateRaindropsPanics(width, height, args.snowflakes)
    \/ CreateCloudsPanics(width, height, args.clouds)

\* lines 170-192: the generators, then the loop is entered with running = true
Generate ==
    /\ pc = "generate"
    /\ IF GeneratePanics
       THEN pc' = "panicked" /\ UNCHANGED <<scene, running>>
       ELSE /\ buildings' \in CreateBuildings(width, height, rng)
            /\ vehicles' = CreateVehicles(height)
            /\ stars' \in CreateStarsWithCount(width, height, rng, args.stars)
            /\ raindrops' \in
                 IF args.rain
                 THEN CreateRaindropsWithCount(width, height, rng, args.raindrops)
                 ELSE {<<>>}
            /\ snowflakes' \in
                 IF args.snow
                 THEN CreateSnowflakesWithCount(width, height, rng, args.snowflakes)
                 ELSE {<<>>}
            /\ clouds' \in CreateCloudsWithCount(width, height, rng, args.clouds)
            /\ running' = TRUE
            /\ pc' = "loop"
    /\ op' = "generate"
    /\ UNCHANGED <<tracked, overflow_checks, rng, args, width, height, result, restored,
                   ticks, last, painted>>

\* a loop that does not test the flag
LoopGuardAlways == TRUE

\* line 193: while running
LoopGuard == running

PollEvents == {"timeout", "key", "other", "poll_err", "read_err"}

\* lines 194-200: event::poll(..)? and event::read()?
Poll ==
    /\ pc = "loop"
    /\ LoopGuard
    /\ ticks < MaxTicks
    /\ ticks' = ticks + 1
    /\ \E ev \in PollEvents :
         /\ last' = [NoTick EXCEPT !.key = (ev = "key")]
         /\ running' = IF ev = "key" THEN FALSE ELSE running
         /\ IF ev \in {"poll_err", "read_err"}
            THEN pc' = "restore" /\ result' = "Err_poll"
            ELSE pc' = "spawn" /\ UNCHANGED result
    /\ op' = "poll"
    /\ UNCHANGED <<tracked, overflow_checks, rng, args, width, height, scene, restored, painted>>

\* lines 202-204: rng.random_bool(0.1) and spawn_vehicle
Spawn ==
    /\ pc = "spawn"
    /\ last' = [last EXCEPT !.spawn_rolled = TRUE]
    /\ \E roll \in RandomBool(rng) :
         IF ~roll THEN pc' = "update" /\ UNCHANGED vehicles
         ELSE IF SpawnVehiclePanics(height, overflow_checks)
         THEN pc' = "panicked" /\ UNCHANGED vehicles
         ELSE /\ \E v \in SpawnVehicle(width, height, rng) : vehicles' = Append(vehicles, v)
              /\ pc' = "update"
    /\ op' = "spawn"
    /\ UNCHANGED <<tracked, overflow_checks, rng, args, width, height, buildings, stars,
                   raindrops, snowflakes, clouds, running, result, restored, ticks, painted>>

\* lines 206-215: the per-kind updates
Update ==
    /\ pc = "update"
    /\ buildings' \in UpdateWindows(buildings, rng)
    /\ vehicles' = UpdateVehicles(vehicles, width)
    /\ stars' \in UpdateStars(stars, rng)
    /\ raindrops' \in
         IF args.rain THEN UpdateRaindrops(raindrops, width, height, rng) ELSE {raindrops}
    /\ snowflakes' \in
         IF args.snow THEN UpdateSnowflakes(snowflakes, width, height, rng) ELSE {snowflakes}
    /\ clouds' = UpdateClouds(clouds, width)
    /\ last' = [last EXCEPT !.updated = TRUE]
    /\ pc' = "draw"
    /\ op' = "update"
    /\ UNCHANGED <<tracked, overflow_checks, rng, args, width, height, running, result,
                   restored, ticks, painted>>

\* whether draw_scene, with paint operation `fault` failing, gets to draw_moon
ReachesMoon(fault) == fault = 0 \/ fault >= 4

\* line 229: draw_scene(..)?, then the sleep and the next iteration
Draw ==
    /\ pc = "draw"
    /\ last' = [last EXCEPT !.drawn = TRUE]
    /\ \E fault \in 0..Len(PaintOps) :
         IF ReachesMoon(fault) /\ DrawMoonPanics(width, overflow_checks)
         THEN /\ painted' = SubSeq(PaintOps, 1, 3)
              /\ pc' = "panicked"
              /\ UNCHANGED result
         ELSE /\ painted' = DrawScene(fault).painted
              /\ IF DrawScene(fault).err
                 THEN pc' = "restore" /\ result' = "Err_draw"
                 ELSE pc' = "loop" /\ UNCHANGED result
    /\ op' = "draw_scene"
    /\ UNCHANGED <<tracked, overflow_checks, rng, args, width, height, scene, running,
                   restored, ticks>>

\* line 238: the loop ends and the closure returns Ok(())
LoopExit ==
    /\ pc = "loop"
    /\ ~LoopGuard
    /\ result' = "Ok"
    /\ pc' = "restore"
    /\ op' = "loop_exit"
    /\ UNCHANGED <<tracked, overflow_checks, rng, args, width, height, scene, running,
                   restored, ticks, last, painted>>

\* lines 241-246: restore_terminal, its error only printed; main returns result
RestoreTerminal ==
    /\ pc = "restore"
    /\ restored' \in {"ok", "failed"}
    /\ pc' = "done"
    /\ op' = "restore_terminal"
    /\ UNCHANGED <<tracked, overflow_checks, rng, args, width, height, scene, running,
                   result, ticks, last, painted>>

Next ==
    \/ SetupTerminal
    \/ TerminalSize
    \/ Generate
    \/ Poll
    \/ Spawn
    \/ Update
    \/ Draw
    \/ LoopExit
    \/ RestoreTerminal

Spec == Init /\ [][Next]_vars

---------------------------------------------------------------------------
(* Claims about the driver, checked under Spec *)

TickDidAll == last.spawn_rolled /\ last.updated /\ last.drawn

\* C1 as stated: in a tick whose poll yields a key event no vehicle spawn, no
\* per-kind update and no render is performed.
C1_KeyTickDoesNothing ==
    last.key => ~last.spawn_rolled /\ ~last.updated /\ ~last.drawn

\* C1 amended: a tick whose poll yields a key event is the last tick of the
\* loop.  The spawn roll, the per-kind updates and the render are still
\* performed in that tick; after it the loop is left without any further
\* spawn, update or render, and every other tick runs only while no key has
\* arrived.
C1_KeyTickIsLastTick ==
    /\ pc \in {"spawn", "update", "draw"} /\ ~last.key => running
    /\ last.key => ~running
    /\ pc = "loop" /\ ~running => last.key /\ TickDidAll
    /\ result = "Ok" => last.key /\ TickDidAll /\ painted = PaintOps

C1_Witness ==
    pc = "done" /\ result = "Ok" /\ last.key /\ TickDidAll /\ ticks = 2

\* the latest draw_scene returned an error
DrawFailed == last.drawn /\ Len(painted) < Len(PaintOps) /\ pc /= "panicked"

\* C3: when a paint operation of draw_scene fails, the operations painted in
\* that frame are exactly those before it, the loop is left (no later tick),
\* restore_terminal is attempted before main returns, and main returns the
\* draw error whether or not restore_terminal succeeded.
C3_DrawErrorEndsLoop ==
    DrawFailed =>
        /\ painted = SubSeq(PaintOps, 1, Len(painted))
        /\ pc \in {"restore", "done"}
        /\ result = "Err_draw"
        /\ pc = "done" => restored \in {"ok", "failed"}

C3_Witness ==
    /\ pc = "done"
    /\ DrawFailed
    /\ painted = SubSeq(PaintOps, 1, 4)
    /\ restored = "failed"
    /\ result = "Err_draw"

\* C10 as stated: once setup_terminal has succeeded, every path by which main
\* returns has gone through a call to restore_terminal.
C10_RestoreOnEveryReturn ==
    pc = "done" /\ result /= "Err_setup" => restored /= "no"

---------------------------------------------------------------------------
(* The scene functions on their own.  Each behaviour of SpecScene takes    *)
(* one kind of entity (pc names it), creates the collection with its       *)
(* generator and then applies the updaters in any order and any number of  *)
(* times; vehicles are spawned as the loop of main spawns them, at most    *)
(* once before each update.  A behaviour of kind "empty" creates nothing   *)
(* and applies every updater to the empty collections.                     *)

FullRng == [coin |-> BOOLEAN, span |-> U16, grid |-> 1]

NoArgs == [stars |-> 0, raindrops |-> 0, snowflakes |-> 0, clouds |-> 0,
           rain |-> FALSE, snow |-> FALSE]

SceneKinds == {"buildings", "stars", "raindrops", "snowflakes", "clouds", "vehicles", "empty"}

\* the terminal sizes each kind is run on
SceneSizes(kind) ==
    CASE kind = "buildings" -> {<<7, 11>>}
      [] kind = "stars" -> {<<3, 4>>, <<0, 4>>, <<2, 1>>}
      [] kind = "clouds" -> {<<2, 4>>}
      [] kind = "vehicles" -> {<<1, 11>>}
      [] OTHER -> {<<3, 3>>}

\* the draws each kind is run with
SceneRng(kind) ==
    CASE kind = "buildings" -> [coin |-> BOOLEAN, span |-> 1, grid |-> 1]
      [] kind = "clouds" -> [coin |-> BOOLEAN, span |-> U16, grid |-> 3]
      [] OTHER -> FullRng

\* the variables the single-function steps leave alone
control == <<pc, overflow_checks, rng, width, height, running, result,
             restored, ticks, last, painted, tracked>>

InitScene ==
    /\ pc \in SceneKinds
    /\ overflow_checks = TRUE
    /\ rng = SceneRng(pc)
    /\ args = NoArgs
    /\ \E sz \in SceneSizes(pc) : width = sz[1] /\ height = sz[2]
    /\ buildings = <<>>
    /\ vehicles = <<>>
    /\ stars = <<>>
    /\ raindrops = <<>>
    /\ snowflakes = <<>>
    /\ clouds = <<>>
    /\ running = TRUE
    /\ result = "none"
    /\ restored = "no"
    /\ ticks = 0
    /\ last = NoTick
    /\ painted = <<>>
    /\ op = "init"
    /\ tracked = 0

\* the updater of `kind` can be called
Ready(kind) == (pc = kind /\ op /= "init") \/ pc = "empty"

\* line 171: create_buildings(width, height, &mut rng)
CreateBuildingsStep ==
    /\ pc = "buildings"
    /\ op = "init"
    /\ IF CreateBuildingsPanics(width, height, overflow_checks)
       THEN pc' = "panicked" /\ UNCHANGED buildings
       ELSE buildings' \in CreateBuildings(width, height, rng) /\ UNCHANGED pc
    /\ op' = "create_buildings"
    /\ UNCHANGED <<tracked, overflow_checks, rng, args, width, height, running, result, restored,
                   ticks, last, painted, vehicles, stars, raindrops, snowflakes, clouds>>

\* line 172: create_vehicles(height)
CreateVehiclesStep ==
    /\ pc = "vehicles"
    /\ op = "init"
    /\ vehicles' = CreateVehicles(height)
    /\ op' = "create_vehicles"
    /\ UNCHANGED <<control, args, buildings, stars, raindrops, snowflakes, clouds>>

\* line 173: create_stars_with_count(width, height, &mut rng, args.stars)
CreateStarsStep ==
    /\ pc = "stars"
    /\ op = "init"
    /\ \E count \in 0..MaxCount :
         /\ args' = [args EXCEPT !.stars = count]
         /\ IF CreateStarsPanics(width, height, count)
            THEN pc' = "panicked" /\ UNCHANGED stars
            ELSE stars' \in CreateStarsWithCount(width, height, rng, count) /\ UNCHANGED pc
    /\ op' = "create_stars"
    /\ UNCHANGED <<tracked, overflow_checks, rng, width, height, running, result, restored,
                   ticks, last, painted, buildings, vehicles, raindrops, snowflakes, clouds>>

\* line 175: create_raindrops_with_count(width, height, &mut rng, args.raindrops)
CreateRaindropsStep ==
    /\ pc = "raindrops"
    /\ op = "init"
    /\ \E count \in 0..MaxCount :
         /\ args' = [args EXCEPT !.raindrops = count, !.rain = TRUE]
         /\ IF CreateRaindropsPanics(width, height, count)
            THEN pc' = "panicked" /\ UNCHANGED raindrops
            ELSE /\ raindrops' \in CreateRaindropsWithCount(width, height, rng, count)
                 /\ UNCHANGED pc
    /\ op' = "create_raindrops"
    /\ UNCHANGED <<tracked, overflow_checks, rng, width, height, running, result, restored,
                   ticks, last, painted, buildings, vehicles, stars, snowflakes, clouds>>

\* line 180: create_snowflakes_with_count(width, height, &mut rng, args.snowflakes)
CreateSnowflakesStep ==
    /\ pc = "snowflakes"
    /\ op = "init"
    /\ \E count \in 0..MaxCount :
         /\ args' = [args EXCEPT !.snowflakes = count, !.snow = TRUE]
         /\ IF CreateRaindropsPanics(width, height, count)
            THEN pc' = "panicked" /\ UNCHANGED snowflakes
            ELSE /\ snowflakes' \in CreateSnowflakesWithCount(width, height, rng, count)
                 /\ UNCHANGED pc
    /\ op' = "create_snowflakes"
    /\ UNCHANGED <<tracked, overflow_checks, rng, width, height, running, result, restored,
                   ticks, last, painted, buildings, vehicles, stars, raindrops, clouds>>

\* line 184: create_clouds_with_count(width, height, &mut rng, args.clouds)
CreateCloudsStep ==
    /\ pc = "clouds"
    /\ op = "init"
    /\ \E count \in 0..MaxClouds :
         /\ args' = [args EXCEPT !.clouds = count]
         /\ IF CreateCloudsPanics(width, height, count)
            THEN pc' = "panicked" /\ UNCHANGED clouds
            ELSE clouds' \in CreateCloudsWithCount(width, height, rng, count) /\ UNCHANGED pc
    /\ op' = "create_clouds"
    /\ UNCHANGED <<tracked, overflow_checks, rng, width, height, running, result, restored,
                   ticks, last, painted, buildings, vehicles, stars, raindrops, snowflakes>>

\* line 203: vehicles.push(spawn_vehicle(width, height, &mut rng))
SpawnStep ==
    /\ pc = "vehicles"
    /\ op \notin {"init", "spawn_vehicle"}
    /\ Len(vehicles) < MaxVehicles
    /\ ~SpawnVehiclePanics(height, overflow_checks)
    /\ \E v \in SpawnVehicle(width, height, rng) : vehicles' = Append(vehicles, v)
    /\ op' = "spawn_vehicle"
    /\ UNCHANGED <<control, args, buildings, stars, raindrops, snowflakes, clouds>>

\* line 206: update_windows(&mut buildings, &mut rng)
UpdateWindowsStep ==
    /\ Ready("buildings")
    /\ buildings' \in UpdateWindows(buildings, rng)
    /\ op' = "update_windows"
    /\ UNCHANGED <<control, args, vehicles, stars, raindrops, snowflakes, clouds>>

\* line 207: update_vehicles(&mut vehicles, width)
UpdateVehiclesStep ==
    /\ Ready("vehicles")
    /\ vehicles' = UpdateVehicles(vehicles, width)
    /\ op' = "update_vehicles"
    /\ UNCHANGED <<control, args, buildings, stars, raindrops, snowflakes, clouds>>

\* line 208: update_stars(&mut stars, &mut rng)
UpdateStarsStep ==
    /\ Ready("stars")
    /\ stars' \in UpdateStars(stars, rng)
    /\ op' = "update_stars"
    /\ UNCHANGED <<control, args, buildings, vehicles, raindrops, snowflakes, clouds>>

\* line 210: update_raindrops(&mut raindrops, width, height, &mut rng)
UpdateRaindropsStep ==
    /\ Ready("raindrops")
    /\ raindrops' \in UpdateRaindrops(raindrops, width, height, rng)
    /\ op' = "update_raindrops"
    /\ UNCHANGED <<control, args, buildings, vehicles, stars, snowflakes, clouds>>

\* line 213: update_snowflakes(&mut snowflakes, width, height, &mut rng)
UpdateSnowflakesStep ==
    /\ Ready("snowflakes")
    /\ snowflakes' \in UpdateSnowflakes(snowflakes, width, height, rng)
    /\ op' = "update_snowflakes"
    /\ UNCHANGED <<control, args, buildings, vehicles, stars, raindrops, clouds>>

\* line 215: update_clouds(&mut clouds, width)
UpdateCloudsStep ==
    /\ Ready("clouds")
    /\ clouds' = UpdateClouds(clouds, width)
    /\ op' = "update_clouds"
    /\ UNCHANGED <<control, args, buildings, vehicles, stars, raindrops, snowflakes>>

NextScene ==
    \/ CreateBuildingsStep
    \/ CreateVehiclesStep
    \/ CreateStarsStep
    \/ CreateRaindropsStep
    \/ CreateSnowflakesStep
    \/ CreateCloudsStep
    \/ SpawnStep
    \/ UpdateWindowsStep
    \/ UpdateVehiclesStep
    \/ UpdateStarsStep
    \/ UpdateRaindropsStep
    \/ UpdateSnowflakesStep
    \/ UpdateCloudsStep

SpecScene == InitScene /\ [][NextScene]_vars

---------------------------------------------------------------------------
(* Claims about the scene functions, checked under SpecScene *)

InScreen(x, y) == 0 <= x /\ x < width /\ 0 <= y /\ y < height

\* C2 as stated: after any sequence of updates every raindrop, snowflake and
\* cloud has its x within [0, terminal_width) and its y within
\* [0, terminal_height).
C2_AllWithinScreen ==
    /\ \A i \in 1..Len(raindrops) : InScreen(raindrops[i].x, raindrops[i].y)
    /\ \A i \in 1..Len(snowflakes) : InScreen(snowflakes[i].x, snowflakes[i].y)
    /\ \A i \in 1..Len(clouds) :
         /\ 0 <= clouds[i].x /\ clouds[i].x < width * 100
         /\ 0 <= clouds[i].y /\ clouds[i].y < height

\* C2 amended: after any sequence of updates every raindrop and snowflake has
\* x within [0, terminal_width) and y within [0, terminal_height); every
\* cloud has y within [0, terminal_height) and x between minus the length of
\* its shape (where it re-enters) and terminal_width inclusive.
C2_WrappedPositions ==
    /\ \A i \in 1..Len(raindrops) : InScreen(raindrops[i].x, raindrops[i].y)
    /\ \A i \in 1..Len(snowflakes) : InScreen(snowflakes[i].x, snowflakes[i].y)
    /\ \A i \in 1..Len(clouds) :
         /\ -(ShapeLen(clouds[i].shape) * 100) <= clouds[i].x
         /\ clouds[i].x <= width * 100
         /\ 0 <= clouds[i].y /\ clouds[i].y < height

C2_Witness ==
    /\ op = "update_clouds"
    /\ Len(clouds) = 1
    /\ clouds[1].x = CloudWrapX(clouds[1])

\* what the claims say update_vehicles does: every vehicle advances by
\* speed * 0.1 and is dropped exactly when it is then past the opposite edge
\* by the columns its glyph occupies
PastOppositeEdge(v, term_width) ==
    \/ v.speed > 0 /\ v.x > term_width * 100
    \/ v.speed < 0 /\ v.x < -(StyleColumns(v.style) * 100)

Advanced(vs) == [i \in 1..Len(vs) |-> [vs[i] EXCEPT !.x = @ + vs[i].speed]]

\* C4 as stated: update_vehicles advances every vehicle by speed * 0.1 and
\* removes it exactly when it is past the opposite edge by its own glyph
\* width (right-moving: x beyond terminal_width; left-moving: x below minus
\* the columns of its glyph), for every palette entry.
C4_RemovedWhenPastEdge ==
    [][op' = "update_vehicles" =>
         vehicles' = SelectSeq(Advanced(vehicles),
                               LAMBDA v : ~PastOppositeEdge(v, width))]_vars

\* the drift the claim describes
WrappingDrift(x, speed_x, term_width) ==
    IF x = term_width - 1 /\ speed_x = 1 THEN 0
    ELSE IF x = 0 /\ speed_x = -1 THEN term_width - 1
    ELSE x + speed_x

\* C5 as stated: the drift of update_snowflakes wraps at both edges: from
\* column terminal_width-1 with drift +1 to column 0, from column 0 with drift
\* -1 to column terminal_width-1, and otherwise x changes by exactly speed_x
\* (stated for the snowflakes that do not land in the update, whose x is not
\* resampled).
C5_DriftWrapsAtBothEdges ==
    [][op' = "update_snowflakes" =>
         \A i \in 1..Len(snowflakes) :
            ~FlakeLands(snowflakes[i], height) =>
                snowflakes'[i].x =
                    WrappingDrift(snowflakes[i].x, snowflakes[i].speed_x, width)]_vars

Spawned == vehicles[Len(vehicles)]

\* C6: the vehicle spawn_vehicle returns has a (glyph, color, speed) that is
\* one entry of VEHICLE_STYLES, a y that is term_height-3 or term_height-4,
\* and an x of 0 when its speed is positive and of term_width when negative.
C6_SpawnedFromPalette ==
    op = "spawn_vehicle" =>
        /\ \E i \in 1..Len(VEHICLE_STYLES) :
              <<Spawned.style, Spawned.color, Spawned.speed>> = VEHICLE_STYLES[i]
        /\ Spawned.y \in {height - 3, height - 4}
        /\ Spawned.speed > 0 => Spawned.x = 0
        /\ Spawned.speed < 0 => Spawned.x = width * 100
        /\ Spawned.speed /= 0

C6_Witness ==
    /\ op = "spawn_vehicle"
    /\ Spawned.style = "ambulance"
    /\ Spawned.x = width * 100
    /\ Spawned.y = height - 4
    /\ Len(vehicles) = 2
    /\ vehicles[1].y = height - 3

UpdaterOps == {"update_windows", "update_vehicles", "update_stars", "update_raindrops",
               "update_snowflakes", "update_clouds", "spawn_vehicle"}

SameShape(b, c) ==
    /\ b.x = c.x /\ b.width = c.width /\ b.height = c.height /\ b.color = c.color
    /\ b.has_antenna = c.has_antenna /\ b.antenna_char = c.antenna_char
    /\ Len(b.windows) = Len(c.windows)
    /\ \A wy \in 1..Len(b.windows) : Len(b.windows[wy]) = Len(c.windows[wy])

\* C8: a spawn or an update never changes the number of buildings, stars,
\* raindrops, snowflakes or clouds (an empty collection stays empty), leaves
\* every building its x, width, height, color, antenna and window-grid
\* dimensions, and leaves every star its x and y.
C8_OnlyVehiclesComeAndGo ==
    [][op' \in UpdaterOps =>
         /\ Len(buildings') = Len(buildings)
         /\ Len(stars') = Len(stars)
         /\ Len(raindrops') = Len(raindrops)
         /\ Len(snowflakes') = Len(snowflakes)
         /\ Len(clouds') = Len(clouds)
         /\ \A i \in 1..Len(buildings) : SameShape(buildings[i], buildings'[i])
         /\ \A i \in 1..Len(stars) :
              stars'[i].x = stars[i].x /\ stars'[i].y = stars[i].y]_vars

C8_Witness ==
    /\ op = "update_stars"
    /\ Len(stars) = 2
    /\ stars[1].char = "+"
    /\ stars[2].char = "'"
    /\ stars[1].x = 2

StarsAsRequested ==
    /\ pc = "stars"
    /\ Len(stars) = args.stars
    /\ \A i \in 1..Len(stars) :
         /\ 0 <= stars[i].x /\ stars[i].x < width
         /\ 0 <= stars[i].y /\ stars[i].y < height \div 2
         /\ \E k \in 1..Len(STAR_CHARS) : stars[i].char = STAR_CHARS[k]

\* C9 as stated: for every count and terminal size create_stars_with_count
\* returns exactly count stars, each with 0 <= x < width, 0 <= y < height/2
\* and a glyph from STAR_CHARS.
C9_StarsForAnySize == op = "create_stars" => StarsAsRequested

\* C9 amended: for every count and every terminal size with width >= 1 and
\* height >= 2, and for count 0 on any size, create_stars_with_count returns
\* exactly count stars, each with 0 <= x < width, 0 <= y < height/2 and a
\* glyph from STAR_CHARS; for a positive count on a terminal of width 0 or of
\* height below 2 it panics on an empty range and returns nothing.
C9_StarsWhereRangesNonEmpty ==
    op = "create_stars" =>
        IF args.stars = 0 \/ (width >= 1 /\ height >= 2)
        THEN StarsAsRequested
        ELSE pc = "panicked" /\ stars = <<>>

C9_Witness ==
    /\ op = "create_stars"
    /\ Len(stars) = 2
    /\ stars[1].x = width - 1
    /\ stars[2].y = (height \div 2) - 1

---------------------------------------------------------------------------
(* create_buildings on its own, over the whole of its integer ranges (the  *)
(* coin always falls on false: no window is lit and no antenna is built),  *)
(* then draw_buildings on the buildings it returned.                       *)

BuildingRng == [coin |-> {FALSE}, span |-> U16, grid |-> 1]

BuildingSizes == {<<12, 12>>, <<7, 15>>, <<7, 11>>, <<7, 8>>, <<0, 3>>}

InitBuildings ==
    /\ pc = "buildings"
    /\ overflow_checks \in BOOLEAN
    /\ rng = BuildingRng
    /\ args = NoArgs
    /\ \E sz \in BuildingSizes : width = sz[1] /\ height = sz[2]
    /\ buildings = <<>>
    /\ vehicles = <<>>
    /\ stars = <<>>
    /\ raindrops = <<>>
    /\ snowflakes = <<>>
    /\ clouds = <<>>
    /\ running = TRUE
    /\ result = "none"
    /\ restored = "no"
    /\ ticks = 0
    /\ last = NoTick
    /\ painted = <<>>
    /\ op = "init"
    /\ tracked = 0

\* line 229 -> 460: draw_buildings(stdout, &buildings, term_height) on the
\* buildings just created; `painted` holds what it paints
DrawBuildingsStep ==
    /\ pc = "buildings"
    /\ op = "create_buildings"
    /\ painted' = DrawBuildings(buildings, height)
    /\ op' = "draw_buildings"
    /\ UNCHANGED <<tracked, overflow_checks, rng, args, width, height, scene, running,
                   result, restored, ticks, last, pc>>

NextBuildings ==
    \/ CreateBuildingsStep
    \/ DrawBuildingsStep

SpecBuildings == InitBuildings /\ [][NextBuildings]_vars

BuildingsAsClaimed ==
    /\ pc = "buildings"
    /\ width > 0 => Len(buildings) > 0 /\ buildings[1].x = 0
    /\ \A i \in 1..(Len(buildings) - 1) :
          buildings[i].x + buildings[i].width <= buildings[i + 1].x
    /\ \A i \in 1..Len(buildings) :
          /\ 5 <= buildings[i].width /\ buildings[i].width < 15
          /\ 5 <= buildings[i].height /\ buildings[i].height < height - 5
          /\ buildings[i].x < width
          /\ \E k \in 1..Len(BUILDING_COLORS) : buildings[i].color = BUILDING_COLORS[k]
          /\ Len(buildings[i].windows) > 0
          /\ \E wy \in 1..Len(buildings[i].windows) : Len(buildings[i].windows[wy]) > 0

\* C7 as stated: for any terminal width and height create_buildings returns
\* buildings tiled left to right from x = 0 without overlap, each with
\* 5 <= width < 15, 5 <= height < term_height-5, x < term_width, a color of
\* BUILDING_COLORS and a non-empty window grid.
C7_BuildingsForAnySize == op = "create_buildings" => BuildingsAsClaimed

\* C7 amended: for any terminal height of at least 11 (and on a terminal of
\* width 0, where it returns no building) create_buildings returns buildings
\* tiled left to right from x = 0 without overlap, each with 5 <= width < 15,
\* 5 <= height < term_height-5, x < term_width, a color of BUILDING_COLORS and
\* a non-empty window grid; with a width of at least 1 and a height of 5 to
\* 10 the height range is empty and it panics instead of returning.
C7_BuildingsWhereHeightsExist ==
    op = "create_buildings" =>
        IF height >= 11 \/ width = 0
        THEN BuildingsAsClaimed
        ELSE pc = "panicked" /\ buildings = <<>>

C7_Witness ==
    /\ op = "create_buildings"
    /\ Len(buildings) = 2
    /\ buildings[1].width = 5
    /\ buildings[2].x = 6
    /\ buildings[2].width = 14
    /\ buildings[2].height = 6

---------------------------------------------------------------------------
(* The loop of main as the vehicles see it: lines 193-207 repeated on a
   terminal where every other collection is empty, so that the remaining
   updates of lines 206-215 change nothing.  The render of line 229 does not
   touch the vehicles and is taken to succeed; a failing render ends the loop
   as a key does.  The loop is not cut off after MaxTicks iterations here. *)

\* the palette entries drawn in this behaviour: the fastest vehicle in each
\* direction
TrafficStyles == {"car8", "ambulance"}

\* one lane; every palette index can be drawn
TrafficRng == [coin |-> {TRUE}, span |-> 9, grid |-> 1]

TrafficSizes == {<<0, 11>>}

InitTraffic ==
    /\ pc = "poll"
    /\ overflow_checks = TRUE
    /\ rng = TrafficRng
    /\ args = NoArgs
    /\ \E sz \in TrafficSizes : width = sz[1] /\ height = sz[2]
    /\ buildings = <<>>
    /\ vehicles = <<>>
    /\ stars = <<>>
    /\ raindrops = <<>>
    /\ snowflakes = <<>>
    /\ clouds = <<>>
    /\ running = TRUE
    /\ result = "none"
    /\ restored = "no"
    /\ ticks = 0
    /\ last = NoTick
    /\ painted = <<>>
    /\ op = "init"
    /\ tracked = 0

\* one iteration of the while loop with the index k of the followed vehicle:
\* a removal at i moves the later vehicles down by one
TrackedIter(vs, i, k, term_width) ==
    LET st == UpdateVehiclesIter(vs, i, term_width)
    IN <<st[1], st[2],
         IF Len(st[1]) = Len(vs) THEN k
         ELSE IF k = i THEN 0 ELSE IF k > i THEN k - 1 ELSE k>>

\* the index of the followed vehicle after the while loop of update_vehicles
\* from index i on
RECURSIVE TrackedFrom(_, _, _, _)
TrackedFrom(vs, i, k, term_width) ==
    IF ~(i <= Len(vs)) THEN k
    ELSE CHOOSE out \in
           {TrackedFrom(st[1], st[2], st[3], term_width) :
              st \in {TrackedIter(vs, i, k, term_width)}} : TRUE

\* lines 193-200: the loop condition and the poll (no key, or a key)
TrafficPoll ==
    /\ pc = "poll"
    /\ LoopGuard
    /\ \E key \in BOOLEAN : running' = ~key
    /\ pc' = "spawn"
    /\ op' = "poll"
    /\ UNCHANGED <<tracked, overflow_checks, rng, args, width, height, scene, result,
                   restored, ticks, last, painted>>

\* lines 202-204: at most one vehicle is pushed; it may become the followed one
TrafficSpawn ==
    /\ pc = "spawn"
    /\ \E roll \in RandomBool(FullRng) :
         IF ~roll THEN UNCHANGED <<vehicles, tracked>>
         ELSE \E v \in SpawnVehicle(width, height, rng) :
                /\ v.style \in TrafficStyles
                /\ vehicles' = Append(vehicles, v)
                /\ tracked' \in IF tracked = 0 THEN {0, Len(vehicles) + 1} ELSE {tracked}
    /\ pc' = "update"
    /\ op' = "spawn"
    /\ UNCHANGED <<overflow_checks, rng, args, width, height, buildings, stars,
                   raindrops, snowflakes, clouds, running, result, restored, ticks,
                   last, painted>>

\* line 207: update_vehicles(&mut vehicles, width)
TrafficUpdate ==
    /\ pc = "update"
    /\ vehicles' = UpdateVehicles(vehicles, width)
    /\ tracked' = TrackedFrom(vehicles, 1, tracked, width)
    /\ pc' = "poll"
    /\ op' = "update_vehicles"
    /\ UNCHANGED <<overflow_checks, rng, args, width, height, buildings, stars,
                   raindrops, snowflakes, clouds, running, result, restored, ticks,
                   last, painted>>

\* line 193: the loop condition fails after a key
TrafficExit ==
    /\ pc = "poll"
    /\ ~LoopGuard
    /\ pc' = "done"
    /\ op' = "exit"
    /\ UNCHANGED <<tracked, overflow_checks, rng, args, width, height, scene, running,
                   result, restored, ticks, last, painted>>

NextTraffic ==
    \/ TrafficPoll
    \/ TrafficSpawn
    \/ TrafficUpdate
    \/ TrafficExit

\* the loop is sequential code: while it has a step to take it takes it
SpecTraffic == InitTraffic /\ [][NextTraffic]_vars /\ WF_vars(NextTraffic)

\* the number of ticks in which vehicle v is in the collection on a terminal
\* term_width wide: the calls of update_vehicles up to the one removing it
RECURSIVE TicksAlive(_, _)
TicksAlive(v, term_width) ==
    LET moved == [v EXCEPT !.x = @ + v.speed]
    IN IF OffScreen(moved, term_width) THEN 1 ELSE 1 + TicksAlive(moved, term_width)

\* the largest number of ticks a single vehicle can survive
LongestLife ==
    LET fresh == {v \in SpawnVehicle(width, height, rng) : v.style \in TrafficStyles}
    IN CHOOSE n \in {TicksAlive(v, width) : v \in fresh} :
         \A v \in fresh : TicksAlive(v, width) <= n

\* C11: while the loop keeps ticking every spawned vehicle (the followed one
\* is any of them) is eventually removed by update_vehicles, and the number
\* of vehicles in the collection never exceeds the largest number of ticks a
\* single vehicle can survive on this terminal, the tick of its removal
\* counted; once update_vehicles has run in a tick it is below that number.
C11_VehiclesLeaveAndStayFew ==
    /\ [](/\ Len(vehicles) <= LongestLife
          /\ op = "update_vehicles" => Len(vehicles) < LongestLife)
    /\ (tracked /= 0) ~> (tracked = 0 \/ pc = "done")

C11_Witness ==
    /\ pc = "update"
    /\ Len(vehicles) = LongestLife
    /\ tracked = 1
    /\ running

---------------------------------------------------------------------------
(* Where draw_buildings paints the windows create_buildings generated *)

\* the relative column create_buildings gave the window pushed as number wx
\* (from 0) of row y: the (wx+1)-th of the columns of that row
GeneratedColumn(y, w, wx) ==
    CHOOSE c \in WindowColumns(y, w) :
        Cardinality({d \in WindowColumns(y, w) : d < c}) = wx

\* the relative row of the row pushed as number wy (from 0): rows are pushed
\* for y = 1, 2, ... in turn
GeneratedRow(wy) == wy + 1

WindowWhereGenerated(b, p) ==
    p.at = <<b.x + GeneratedColumn(GeneratedRow(p.wy), b.width, p.wx),
             BodyTop(b, height) + GeneratedRow(p.wy)>>

WindowInsideBody(b, p) ==
    /\ b.x < p.at[1] /\ p.at[1] < b.x + b.width - 1
    /\ BodyTop(b, height) < p.at[2]
    /\ p.at[2] < BodyTop(b, height) + b.height - 1
    /\ p.at[2] < height

\* C12 as stated: every window is painted by draw_buildings at the odd
\* relative (column, row) offset for which create_buildings generated it, so
\* it lies strictly inside the body rectangle of its building: not on the
\* border, not below the building and not on a row outside the terminal.
C12_WindowsPaintedWhereGenerated ==
    op = "draw_buildings" =>
        \A i \in 1..Len(buildings) : \A p \in painted[i].windows :
            WindowWhereGenerated(buildings[i], p) /\ WindowInsideBody(buildings[i], p)

===========================================================================
